---------------------------- MODULE Spec2Model ----------------------------
(***************************************************************************)
(* NEORV32 "hello world" firmware (neorv32/rust-hello-world/src/main.rs). *)
(*                                                                         *)
(* The program is a single thread of control: main calls init_uart, then   *)
(* uart_puts with the fixed greeting, then spins in loop {}.  Every MMIO    *)
(* access is one step of the model.  The UART peripheral is the            *)
(* environment: it answers each read of the control register with a value  *)
(* whose bit 15 says whether the transmitter can take a byte.              *)
(*                                                                         *)
(* 32-bit words (u32, and usize on rv32) are kept as two 16-bit halves,     *)
(* [hi, lo], so that the full register width is represented.               *)
(***************************************************************************)
EXTENDS Integers, Sequences, FiniteSets

(***************************************************************************)
(* Bounds of the model.                                                    *)
(***************************************************************************)
\* Largest number of not-ready answers the peripheral gives for one byte
\* (when it does become ready), and the cap on the poll counter.
MaxPolls == 3
\* Longest input string, in characters, given to uart_puts on its own.
MaxChars == 2

(***************************************************************************)
(* 32-bit words.                                                           *)
(***************************************************************************)
Half == 2 ^ 16

W(h, l) == [hi |-> h, lo |-> l]

Zero == W(0, 0)

\* Wrapping addition of two words (usize/u32 arithmetic, modulo 2^32).
AddU32(a, b) ==
    LET lo == a.lo + b.lo
        hi == a.hi + b.hi + (lo \div Half)
    IN  W(hi % Half, lo % Half)

RECURSIVE BitAndN(_, _, _)
BitAndN(a, b, n) ==
    IF n = 0 \/ a = 0 \/ b = 0 THEN 0
    ELSE (a % 2) * (b % 2) + 2 * BitAndN(a \div 2, b \div 2, n - 1)

RECURSIVE BitOrN(_, _, _)
BitOrN(a, b, n) ==
    IF n = 0 THEN 0
    ELSE IF a = 0 THEN b
    ELSE IF b = 0 THEN a
    ELSE (IF (a % 2) + (b % 2) > 0 THEN 1 ELSE 0)
         + 2 * BitOrN(a \div 2, b \div 2, n - 1)

\* a & b and a | b on u32.
BitAnd(a, b) == W(BitAndN(a.hi, b.hi, 16), BitAndN(a.lo, b.lo, 16))

BitOr(a, b) == W(BitOrN(a.hi, b.hi, 16), BitOrN(a.lo, b.lo, 16))

\* 1 << n on u32, 0 <= n < 32.
Shl1(n) == IF n < 16 THEN W(0, 2 ^ n) ELSE W(2 ^ (n - 16), 0)

\* A faulty variant of AsU32: the byte is sign-extended (c as i8 as u32).
AsU32_SignExtend(b) == IF b >= 128 THEN W(65535, 65280 + b) ELSE W(0, b)

\* c as u32 for a u8 c: zero-extension.
AsU32(b) == W(0, b % 256)

(***************************************************************************)
(* Program constants.                                                      *)
(***************************************************************************)
\* 0xFFFFFFC0
UART0_BASE == W(65535, 65472)

UART_DATA == W(0, 0)

UART_CTRL == W(0, 4)

UART_CTRL_EN == Shl1(0)

UART_CTRL_TX_EN == Shl1(1)

\* The bytes of the string literal "Hello, World from Rust on NEORV32!\r\n".
Greeting ==
    << 72, 101, 108, 108, 111, 44, 32, 87, 111, 114, 108, 100,
       32, 102, 114, 111, 109, 32, 82, 117, 115, 116, 32, 111,
       110, 32, 78, 69, 79, 82, 86, 51, 50, 33, 13, 10 >>

(***************************************************************************)
(* The bytes of a &str are the UTF-8 encoding of its characters; s.bytes() *)
(* walks exactly those bytes.                                              *)
(***************************************************************************)
Utf8Char(cp) ==
    IF cp < 128 THEN << cp >>
    ELSE IF cp < 2048 THEN << 192 + (cp \div 64), 128 + (cp % 64) >>
    ELSE IF cp < 65536 THEN
        << 224 + (cp \div 4096), 128 + ((cp \div 64) % 64), 128 + (cp % 64) >>
    ELSE << 240 + (cp \div 262144), 128 + ((cp \div 4096) % 64),
            128 + ((cp \div 64) % 64), 128 + (cp % 64) >>

RECURSIVE Utf8(_)
Utf8(cs) == IF cs = << >> THEN << >> ELSE Utf8Char(Head(cs)) \o Utf8(Tail(cs))

\* Sample characters: NUL, 'H', U+0080, U+20AC, U+10FFFF (1 to 4 bytes each).
CodePoints == {0, 72, 128, 8364, 1114111}

StrInputs ==
    { Utf8(cs) : cs \in UNION { [1..n -> CodePoints] : n \in 0..MaxChars } }

(***************************************************************************)
(* State.                                                                  *)
(***************************************************************************)
VARIABLES
    pc,        \* where the program is: "init", "call", "puts", "poll",
               \* "write", "ret" (uart_puts has returned), "halt" (loop {})
    s,         \* uart_puts: the bytes of its argument
    i,         \* uart_puts: how many bytes the iterator has yielded
    c,         \* uart_putc: its argument
    panicked,  \* control is inside the panic handler
    written,   \* per register address, the values stored to it, in order
    first,     \* the first MMIO access of the run
    last,      \* the latest MMIO access
    polls,     \* control-register reads since uart_putc was last entered
    busy,      \* peripheral: reads still to be answered "not ready"
    delays     \* peripheral: the values busy may take after a store

vars == << pc, s, i, c, panicked, written, first, last, polls, busy, delays >>

DataAddr == AddU32(UART0_BASE, UART_DATA)

CtrlAddr == AddU32(UART0_BASE, UART_CTRL)

DataWrites == written[DataAddr]

CtrlWrites == written[CtrlAddr]

None == [op |-> "none", addr |-> Zero, val |-> Zero]

Access(op, addr, val) == [op |-> op, addr |-> addr, val |-> val]

(***************************************************************************)
(* The peripheral.                                                         *)
(***************************************************************************)
\* busy = Stuck: the transmitter never becomes ready again.
Stuck == 0 - 1

AnyDelays == (0..MaxPolls) \cup {Stuck}

\* Bits of the control register other than bit 15, as a read may return them:
\* none, the two enable bits, every bit but bit 15.
OtherBits == { Zero, W(0, 3), W(65535, 32767) }

\* What a read of a register may return.
UartRead(addr) ==
    IF addr = CtrlAddr
    THEN { BitOr(o, IF busy = 0 THEN Shl1(15) ELSE Zero) : o \in OtherBits }
    ELSE { Zero }

ReadValues == { BitOr(o, r) : o \in OtherBits, r \in {Zero, Shl1(15)} }

(***************************************************************************)
(* MMIO.                                                                   *)
(***************************************************************************)
write_mmio(addr, val) ==
    /\ last' = Access("write", addr, val)
    /\ first' = IF first = None THEN Access("write", addr, val) ELSE first
    /\ written' = IF addr \in DOMAIN written
                  THEN [written EXCEPT ![addr] = Append(@, val)]
                  ELSE written
    /\ busy' \in delays
    /\ UNCHANGED polls

read_mmio(addr, v) ==
    /\ polls <= MaxPolls
    /\ v \in UartRead(addr)
    /\ last' = Access("read", addr, v)
    /\ first' = IF first = None THEN Access("read", addr, v) ELSE first
    /\ polls' = IF addr = CtrlAddr THEN polls + 1 ELSE polls
    /\ busy' = IF busy > 0 THEN busy - 1 ELSE busy
    /\ UNCHANGED written

(***************************************************************************)
(* The panic handler: fn panic(_) -> ! { loop {} }.                        *)
(***************************************************************************)
\* The interrupted code runs only while the handler has not been entered.
Running == ~panicked

panic ==
    /\ ~panicked
    /\ panicked' = TRUE
    /\ UNCHANGED << pc, s, i, c, written, first, last, polls, busy, delays >>

\* A faulty variant of panic_loop: the handler prints '!' on the UART.
panic_loop_Diag ==
    /\ panicked
    /\ Len(DataWrites) < Len(Greeting) + 1
    /\ write_mmio(DataAddr, AsU32(33))
    /\ UNCHANGED << pc, s, i, c, panicked, delays >>

panic_loop ==
    /\ panicked
    /\ UNCHANGED vars

(***************************************************************************)
(* init_uart, uart_putc, uart_puts.                                        *)
(***************************************************************************)
\* A faulty variant of init_uart: the transmitter enable bit is forgotten.
init_uart_OnlyEn == write_mmio(AddU32(UART0_BASE, UART_CTRL), UART_CTRL_EN)

init_uart ==
    write_mmio(AddU32(UART0_BASE, UART_CTRL), BitOr(UART_CTRL_EN, UART_CTRL_TX_EN))

\* A faulty variant of uart_putc_wait: bit 1 (TX enable) is tested, not bit 15.
uart_putc_wait_WrongBit(v) ==
    /\ Running
    /\ pc = "poll"
    /\ read_mmio(AddU32(UART0_BASE, UART_CTRL), v)
    /\ pc' = IF BitAnd(v, UART_CTRL_TX_EN) = Zero THEN "poll" ELSE "write"
    /\ UNCHANGED << s, i, c, panicked, delays >>

\* A faulty variant of uart_putc_wait: the loop runs while the bit is set.
uart_putc_wait_Inverted(v) ==
    /\ Running
    /\ pc = "poll"
    /\ read_mmio(AddU32(UART0_BASE, UART_CTRL), v)
    /\ pc' = IF BitAnd(v, Shl1(15)) # Zero THEN "poll" ELSE "write"
    /\ UNCHANGED << s, i, c, panicked, delays >>

\* A faulty variant of uart_putc_wait: an if in place of the while.
uart_putc_wait_NoLoop(v) ==
    /\ Running
    /\ pc = "poll"
    /\ read_mmio(AddU32(UART0_BASE, UART_CTRL), v)
    /\ pc' = "write"
    /\ UNCHANGED << s, i, c, panicked, delays >>

\* A faulty variant of uart_putc_wait: the wait gives up after two polls.
uart_putc_wait_Timeout(v) ==
    /\ Running
    /\ pc = "poll"
    /\ read_mmio(AddU32(UART0_BASE, UART_CTRL), v)
    /\ pc' = IF BitAnd(v, Shl1(15)) = Zero /\ polls < 1 THEN "poll" ELSE "write"
    /\ UNCHANGED << s, i, c, panicked, delays >>

\* One turn of  while (read_mmio(UART0_BASE + UART_CTRL) & (1 << 15)) == 0 {}
\* in which the read returns v.
uart_putc_wait(v) ==
    /\ Running
    /\ pc = "poll"
    /\ read_mmio(AddU32(UART0_BASE, UART_CTRL), v)
    /\ pc' = IF BitAnd(v, Shl1(15)) = Zero THEN "poll" ELSE "write"
    /\ UNCHANGED << s, i, c, panicked, delays >>

\* write_mmio(UART0_BASE + UART_DATA, c as u32), and the return to uart_puts.
uart_putc_write ==
    /\ Running
    /\ pc = "write"
    /\ write_mmio(AddU32(UART0_BASE, UART_DATA), AsU32(c))
    /\ pc' = "puts"
    /\ UNCHANGED << s, i, c, panicked, delays >>

\* A faulty variant of uart_puts: the last byte is never sent.
uart_puts_DropLast ==
    /\ Running
    /\ pc = "puts"
    /\ IF i + 1 < Len(s)
       THEN c' = s[i + 1] /\ i' = i + 1 /\ polls' = 0 /\ pc' = "poll"
       ELSE pc' = "ret" /\ UNCHANGED << c, i, polls >>
    /\ UNCHANGED << s, panicked, written, first, last, busy, delays >>

\* for c in s.bytes(): the next byte and the call of uart_putc, or the return.
uart_puts ==
    /\ Running
    /\ pc = "puts"
    /\ IF i < Len(s)
       THEN c' = s[i + 1] /\ i' = i + 1 /\ polls' = 0 /\ pc' = "poll"
       ELSE pc' = "ret" /\ UNCHANGED << c, i, polls >>
    /\ UNCHANGED << s, panicked, written, first, last, busy, delays >>

(***************************************************************************)
(* main.                                                                   *)
(***************************************************************************)
\* A faulty variant of main_init_uart: the call of init_uart is left out.
main_init_uart_Skipped ==
    /\ Running
    /\ pc = "init"
    /\ pc' = "call"
    /\ UNCHANGED << s, i, c, panicked, written, first, last, polls, busy, delays >>

main_init_uart ==
    /\ Running
    /\ pc = "init"
    /\ init_uart
    /\ pc' = "call"
    /\ UNCHANGED << s, i, c, panicked, delays >>

main_uart_puts ==
    /\ Running
    /\ pc = "call"
    /\ s' = Greeting
    /\ i' = 0
    /\ pc' = "puts"
    /\ UNCHANGED << c, panicked, written, first, last, polls, busy, delays >>

\* A faulty variant of main_loop: the loop body sends the greeting again.
main_loop_Resend ==
    /\ Running
    /\ pc \in {"ret", "halt"}
    /\ IF Len(DataWrites) < Len(Greeting) + 1
       THEN pc' = "call"
       ELSE pc' = "halt"
    /\ UNCHANGED << s, i, c, panicked, written, first, last, polls, busy, delays >>

\* loop {}
main_loop ==
    /\ Running
    /\ pc \in {"ret", "halt"}
    /\ pc' = "halt"
    /\ UNCHANGED << s, i, c, panicked, written, first, last, polls, busy, delays >>

(***************************************************************************)
(* Specifications.                                                         *)
(***************************************************************************)
InitProgram ==
    /\ s = << >>
    /\ i = 0
    /\ c = 0
    /\ panicked = FALSE
    /\ written = [a \in {DataAddr, CtrlAddr} |-> << >>]
    /\ first = None
    /\ last = None
    /\ polls = 0

\* main, with a peripheral free to take any time, or for ever, over a byte.
Init ==
    /\ InitProgram
    /\ pc = "init"
    /\ delays = AnyDelays
    /\ busy = 0

NextMain ==
    \/ main_init_uart
    \/ main_uart_puts
    \/ uart_puts
    \/ \E v \in ReadValues : uart_putc_wait(v)
    \/ uart_putc_write
    \/ main_loop

Next ==
    \/ NextMain
    \/ panic
    \/ panic_loop

Spec == Init /\ [][Next]_vars

\* main, with a peripheral that answers not-ready N times for each byte.
InitN ==
    /\ InitProgram
    /\ pc = "init"
    /\ \E n \in 0..MaxPolls : delays = {n}
    /\ busy = 0

SpecN == InitN /\ [][NextMain]_vars

\* main, with a peripheral that is always ready; the processor keeps running.
InitReady ==
    /\ InitProgram
    /\ pc = "init"
    /\ delays = {0}
    /\ busy = 0

SpecReady == InitReady /\ [][NextMain]_vars /\ WF_vars(NextMain)

\* uart_puts on its own, on any string, with a peripheral that becomes ready.
InitPuts ==
    /\ s \in StrInputs
    /\ i = 0
    /\ c = 0
    /\ panicked = FALSE
    /\ written = [a \in {DataAddr, CtrlAddr} |-> << >>]
    /\ first = None
    /\ last = None
    /\ polls = 0
    /\ pc = "puts"
    /\ delays = 0..MaxPolls
    /\ busy \in delays

NextPuts ==
    \/ uart_puts
    \/ \E v \in ReadValues : uart_putc_wait(v)
    \/ uart_putc_write

SpecPuts == InitPuts /\ [][NextPuts]_vars

(***************************************************************************)
(* Properties.                                                             *)
(***************************************************************************)
Byte(b) == W(0, b)

Returned == pc \in {"ret", "halt"}

\* C1 (as stated): the values written to the data register are, in order, the
\* bytes of the greeting, nothing else is ever written to it, and the whole
\* sequence is 37 bytes long and ends with CR LF.
C1_Original ==
    LET n == Len(DataWrites) IN
    /\ n <= Len(Greeting)
    /\ \A k \in 1..n : DataWrites[k] = Byte(Greeting[k])
    /\ Returned => /\ n = 37
                   /\ DataWrites[n - 1] = Byte(13)
                   /\ DataWrites[n] = Byte(10)

\* C1 (amended): at every state the values written to the data register are a
\* prefix of the bytes of the greeting; once uart_puts has returned they are
\* the whole greeting, which is 36 bytes long and ends with CR LF.
C1_GreetingBytes ==
    LET n == Len(DataWrites) IN
    /\ n <= Len(Greeting)
    /\ \A k \in 1..n : DataWrites[k] = Byte(Greeting[k])
    /\ Returned => /\ n = 36
                   /\ DataWrites[n - 1] = Byte(13)
                   /\ DataWrites[n] = Byte(10)

C1_Witness ==
    /\ pc = "halt"
    /\ ~panicked
    /\ DataWrites = [k \in 1..Len(Greeting) |-> Byte(Greeting[k])]

\* C2: the control register is written exactly once, by init_uart, with the
\* value 3 (bit 0 | bit 1), and never again.
C2_CtrlWrittenOnce ==
    /\ Len(CtrlWrites) <= 1
    /\ \A k \in 1..Len(CtrlWrites) : CtrlWrites[k] = W(0, 3)
    /\ pc = "init" => CtrlWrites = << >>
    /\ pc # "init" => Len(CtrlWrites) = 1

C2_Witness ==
    /\ pc = "halt"
    /\ CtrlWrites = << W(0, 3) >>
    /\ Len(DataWrites) = Len(Greeting)

\* C3: the access just before every data-register write is a read of the
\* control register that returned bit 15 set; so at least one read precedes
\* each write and no write follows a not-ready read directly.
C3_WriteOnlyAfterReadyRead ==
    [][ DataWrites' # DataWrites =>
          /\ last.op = "read"
          /\ last.addr = W(65535, 65476)
          /\ (last.val.lo \div 32768) % 2 = 1
          /\ polls >= 1 ]_vars

C3_Witness ==
    /\ last.op = "write"
    /\ last.addr = DataAddr
    /\ polls >= 2
    /\ Len(DataWrites) >= 2

\* The number of control-register reads made for the byte in hand, or for the
\* byte just written, is final.
PollsFinal ==
    \/ pc = "write"
    \/ pc \in {"puts", "ret", "halt"} /\ Len(DataWrites) > 0

\* C4 (as stated): with a peripheral that is not ready for N polls per byte,
\* exactly N+1 control-register reads precede each data-register write, and
\* the output is the same 37-byte greeting for every N.
C4_Original ==
    \A n \in delays :
        /\ PollsFinal => polls = n + 1
        /\ pc = "poll" => polls <= n
        /\ Returned => /\ DataWrites = [k \in 1..Len(Greeting) |-> Byte(Greeting[k])]
                       /\ Len(DataWrites) = 37

\* C4 (amended): the same, the output being the 36-byte greeting.
C4_PollsPerByte ==
    \A n \in delays :
        /\ PollsFinal => polls = n + 1
        /\ pc = "poll" => polls <= n
        /\ Returned => /\ DataWrites = [k \in 1..Len(Greeting) |-> Byte(Greeting[k])]
                       /\ Len(DataWrites) = 36

C4_Witness ==
    /\ pc = "halt"
    /\ delays = {MaxPolls}
    /\ polls = MaxPolls + 1
    /\ Len(DataWrites) = 36

\* C5: once uart_puts has returned in main, no register is written again and
\* main never leaves its loop.
C5_HaltAbsorbing ==
    [][ Returned =>
          /\ pc' \in {pc, "halt"}
          /\ written' = written ]_vars

C5_Witness ==
    /\ pc = "halt"
    /\ last.op = "write"
    /\ Len(DataWrites) = 36
    /\ Len(CtrlWrites) = 1

\* C6: once the panic handler has been entered, from any point of the program,
\* no register is read or written again and the interrupted code never resumes.
C6_PanicSilent ==
    [][ panicked =>
          /\ panicked'
          /\ UNCHANGED << pc, s, i, c, written, first, last, polls, busy >> ]_vars

C6_Witness ==
    /\ panicked
    /\ pc = "poll"
    /\ polls >= 1
    /\ Len(DataWrites) >= 1

\* C7 (as stated), its final result: with a peripheral that is always ready,
\* each byte takes one control-register read and the halt loop is reached with
\* exactly the 37-byte greeting written.
C7_Original ==
    /\ pc = "write" => polls = 1
    /\ pc = "halt" =>
          /\ DataWrites = [k \in 1..Len(Greeting) |-> Byte(Greeting[k])]
          /\ Len(DataWrites) = 37

\* C7 (amended): with a peripheral that is always ready, each byte takes one
\* control-register read, and the program eventually stays in the halt loop
\* with exactly the 36-byte greeting written.
C7_ReadyRun ==
    /\ [](PollsFinal \/ pc = "poll" => polls <= 1)
    /\ [](PollsFinal => polls = 1)
    /\ <>[](/\ pc = "halt"
            /\ DataWrites = [k \in 1..Len(Greeting) |-> Byte(Greeting[k])]
            /\ Len(DataWrites) = 36)

C7_Witness ==
    /\ pc = "halt"
    /\ delays = {0}
    /\ polls = 1
    /\ Len(DataWrites) = 36
    /\ last = Access("write", DataAddr, Byte(10))

\* C8: when the peripheral never reports ready again, uart_putc stays in its
\* wait for ever: it only reads the control register, writes nothing, and never
\* returns, however often it has polled.
C8_StuckNeverReturns ==
    [][ busy = Stuck /\ pc = "poll" =>
          /\ pc' = "poll"
          /\ busy' = Stuck
          /\ written' = written
          /\ i' = i
          /\ \/ last' = last
             \/ last'.op = "read" /\ last'.addr = CtrlAddr ]_vars

C8_Witness ==
    /\ busy = Stuck
    /\ pc = "poll"
    /\ polls > MaxPolls
    /\ Len(DataWrites) >= 1
    /\ ~panicked

\* C9: the first register access of a run is init_uart's write of 3 to the
\* control register, so it precedes every poll and every data-register write.
C9_InitFirst ==
    /\ first \in {None, Access("write", W(65535, 65476), W(0, 3))}
    /\ last # None => first # None
    /\ (polls > 0 \/ Len(DataWrites) > 0 \/ pc \in {"poll", "write"}) =>
          /\ first # None
          /\ CtrlWrites = << W(0, 3) >>

C9_Witness ==
    /\ pc = "write"
    /\ polls >= 1
    /\ first = Access("write", CtrlAddr, W(0, 3))
    /\ last.op = "read"

\* C10: uart_puts(s) writes to the data register the bytes of s, each
\* zero-extended to 32 bits, in order, one write per byte, and touches no
\* register at all when s is empty.
C10_PutsBytes ==
    /\ Len(DataWrites) = IF pc \in {"poll", "write"} THEN i - 1 ELSE i
    /\ \A k \in 1..Len(DataWrites) :
          /\ DataWrites[k].hi = 0
          /\ DataWrites[k].lo = s[k]
          /\ s[k] \in 0..255
    /\ CtrlWrites = << >>
    /\ pc = "ret" => Len(DataWrites) = Len(s)
    /\ s = << >> => first = None /\ last = None /\ polls = 0

C10_Witness ==
    /\ pc = "ret"
    /\ Len(s) >= 4
    /\ \E k \in 1..Len(s) : s[k] >= 128
    /\ Len(DataWrites) = Len(s)
    /\ polls >= 2

=============================================================================
